---- MODULE Spec2Model ----
(***************************************************************************)
(* Kidney Health Assessment (app.py): a Streamlit script that is executed  *)
(* top to bottom on every user interaction.  One script run loads the      *)
(* model artifact, initialises the session state when it is absent, and    *)
(* routes to the page function of the stored page number.                  *)
(*                                                                         *)
(* Floating point fields are kept in hundredths (1.00 is 100); integer     *)
(* fields are kept as they are.                                            *)
(***************************************************************************)
EXTENDS Integers, Sequences, FiniteSets, TLC

\* ------------------------------------------------------------------ bounds
\* script runs (model loads) after which the user starts no new interaction
MaxLoads == 9
\* control changes a user makes in one session
MaxEdits == 2
\* how far outside a control's range, and off the default, a user entry lies
Overshoot == 1

\* ------------------------------------------------------- the input record
BasicFields == {"age", "glucose", "serum_creatinine", "potassium", "wbc"}

KidneyFields == {"urine_output", "blood_urea", "upcr", "egfr", "pth", "il6"}

Fields == BasicFields \cup KidneyFields

\* the value a missing key of st.session_state would have
Undefined == -1

\* st.session_state.inputs as created on the first run of a session
DefaultInputs ==
    [age |-> 40, glucose |-> 100, serum_creatinine |-> 100, potassium |-> 400,
     wbc |-> 7000, urine_output |-> 1500, blood_urea |-> 4000, upcr |-> 50,
     egfr |-> 9000, pth |-> 4000, il6 |-> 500]

\* min_value of each control
MinValue ==
    [age |-> 5, glucose |-> 50, serum_creatinine |-> 50, potassium |-> 200,
     wbc |-> 1000, urine_output |-> 300, blood_urea |-> 500, upcr |-> 1,
     egfr |-> 1, pth |-> 1000, il6 |-> 1]

\* max_value of each control
MaxValue ==
    [age |-> 100, glucose |-> 600, serum_creatinine |-> 2000, potassium |-> 800,
     wbc |-> 20000, urine_output |-> 4000, blood_urea |-> 25000, upcr |-> 1000,
     egfr |-> 20000, pth |-> 10000, il6 |-> 2000]

NoInputs == [f \in Fields |-> Undefined]

\* what a user may type or drag: below the range, above it, and inside it
RawEntries(f) ==
    {MinValue[f] - Overshoot, MaxValue[f] + Overshoot, DefaultInputs[f] + Overshoot}

\* ------------------------------------------------------------ the controls
ClampNoUpper(v, lo, hi) == IF v < lo THEN lo ELSE v

\* a slider or number input keeps its value inside [min_value, max_value]
Clamp(v, lo, hi) == IF v < lo THEN lo ELSE IF v > hi THEN hi ELSE v

PageControlsShared(p) ==
    IF p = 2 THEN BasicFields ELSE IF p = 3 THEN KidneyFields \cup {"age"} ELSE {}

\* the fields whose controls a page function renders
PageControls(p) ==
    IF p = 2 THEN BasicFields ELSE IF p = 3 THEN KidneyFields ELSE {}

\* the buttons of a page function, in the order the code tests them
PageButtons(p) ==
    CASE p = 1 -> <<"start_assessment">>
      [] p = 2 -> <<"home_from_basic", "next_to_kidney">>
      [] p = 3 -> <<"analyze", "prev_to_basic", "home_from_kidney">>
      [] p = 4 -> <<"home_from_results">>
      [] OTHER -> <<>>

ButtonKeys ==
    {"start_assessment", "home_from_basic", "next_to_kidney", "analyze",
     "prev_to_basic", "home_from_kidney", "home_from_results"}

ButtonTargetSkip(b) ==
    CASE b = "start_assessment" -> 2
      [] b = "home_from_basic" -> 1
      [] b = "next_to_kidney" -> 4
      [] b = "analyze" -> 4
      [] b = "prev_to_basic" -> 2
      [] b = "home_from_kidney" -> 1
      [] b = "home_from_results" -> 1

ButtonTargetSkipBasic(b) ==
    CASE b = "start_assessment" -> 3
      [] b = "home_from_basic" -> 1
      [] b = "next_to_kidney" -> 3
      [] b = "analyze" -> 4
      [] b = "prev_to_basic" -> 2
      [] b = "home_from_kidney" -> 1
      [] b = "home_from_results" -> 1

\* the page number each button hands to go_to_page
ButtonTarget(b) ==
    CASE b = "start_assessment" -> 2
      [] b = "home_from_basic" -> 1
      [] b = "next_to_kidney" -> 3
      [] b = "analyze" -> 4
      [] b = "prev_to_basic" -> 2
      [] b = "home_from_kidney" -> 1
      [] b = "home_from_results" -> 1

\* ---------------------------------------------------- the inference table
ColumnName ==
    [age |-> "Age of the patient",
     glucose |-> "Random blood glucose level (mg/dl)",
     blood_urea |-> "Blood urea (mg/dl)",
     serum_creatinine |-> "Serum creatinine (mg/dl)",
     potassium |-> "Potassium level (mEq/L)",
     wbc |-> "White blood cell count (cells/cumm)",
     egfr |-> "Estimated Glomerular Filtration Rate (eGFR)",
     upcr |-> "Urine protein-to-creatinine ratio",
     urine_output |-> "Urine output (ml/day)",
     pth |-> "Parathyroid hormone (PTH) level",
     il6 |-> "Interleukin-6 (IL-6) level"]

\* the keys of the dict literal handed to pd.DataFrame, in source order
ColumnOrder ==
    <<"age", "glucose", "blood_urea", "serum_creatinine", "potassium", "wbc",
      "egfr", "upcr", "urine_output", "pth", "il6">>

Column(f, inp) == [name |-> ColumnName[f], values |-> <<inp[f]>>]

InputTableSwapped(inp) ==
    [i \in 1..Len(ColumnOrder) |->
        [name |-> ColumnName[ColumnOrder[i]],
         values |-> <<inp[IF ColumnOrder[i] = "egfr" THEN "upcr"
                          ELSE IF ColumnOrder[i] = "upcr" THEN "egfr"
                          ELSE ColumnOrder[i]]>>]]

\* pd.DataFrame({...}): one column per dict key, each a list of one value
InputTable(inp) == [i \in 1..Len(ColumnOrder) |-> Column(ColumnOrder[i], inp)]

NoTable == <<>>

ColumnNames(t) == {t[i].name : i \in 1..Len(t)}

ReorderIgnored(t, names) == t

\* input_data[names]: the columns picked by name, in the order of names
Reorder(t, names) ==
    [i \in 1..Len(names) |-> CHOOSE c \in {t[j] : j \in 1..Len(t)} : c.name = names[i]]

\* input_data[names] raises KeyError when a name is not a column
ReorderRaises(t, names) == \E i \in 1..Len(names) : names[i] \notin ColumnNames(t)

\* ------------------------------------------------------ the model artifact
\* the object joblib.load returns: a classifier with or without the
\* feature_names_in_ attribute
NoModel == [loaded |-> FALSE, hasNames |-> FALSE, names |-> <<>>]

ConstructionNames == [i \in 1..Len(ColumnOrder) |-> ColumnName[ColumnOrder[i]]]

ReversedNames ==
    [i \in 1..Len(ColumnOrder) |-> ConstructionNames[Len(ColumnOrder) + 1 - i]]

UnknownNames ==
    [i \in 1..Len(ColumnOrder) |->
        IF i = Len(ColumnOrder) THEN "Interleukin-6 (IL-6) level (pg/ml)"
        ELSE ConstructionNames[i]]

Artifacts ==
    {[loaded |-> TRUE, hasNames |-> FALSE, names |-> <<>>],
     [loaded |-> TRUE, hasNames |-> TRUE, names |-> ReversedNames],
     [loaded |-> TRUE, hasNames |-> TRUE, names |-> UnknownNames]}

\* what model.predict(input_data)[0] can be: a value of some type, or an
\* exception instead of a value
NoPrediction == [raised |-> FALSE, type |-> "none", repr |-> ""]

PredictOutcomes ==
    {[raised |-> TRUE, type |-> "none", repr |-> ""],
     [raised |-> FALSE, type |-> "str", repr |-> "No_Disease"],
     [raised |-> FALSE, type |-> "str", repr |-> "Disease"],
     [raised |-> FALSE, type |-> "str", repr |-> "no_disease"],
     [raised |-> FALSE, type |-> "bytes", repr |-> "No_Disease"],
     [raised |-> FALSE, type |-> "int", repr |-> "0"]}

LabelByText(out) == IF out.repr = "No_Disease" THEN "Negative" ELSE "Positive"

\* prediction == "No_Disease": true of that string alone
Label(out) ==
    IF out.type = "str" /\ out.repr = "No_Disease" THEN "Negative" ELSE "Positive"

\* -------------------------------------------------------------------- state
VARIABLES
    pc,          \* where the script is: "load", "init", "router", "idle", "stopped"
    model,       \* the module global model of the run in progress
    loads,       \* joblib.load calls made so far
    edits,       \* control changes the user has made so far
    hasPage,     \* 'page' in st.session_state
    page,        \* st.session_state.page
    inputs,      \* st.session_state.inputs
    event,       \* the user interaction being served
    fresh,       \* the interaction's widget trigger is still to be consumed
    runs,        \* script runs started for the interaction
    renders,     \* script runs that ran to their end for the interaction
    mutations,   \* session state values changed for the interaction
    rendered,    \* the page function the last run entered (0 for none)
    error,       \* the st.error message on screen: "load", "prediction" or "none"
    label,       \* the result shown: "Negative", "Positive" or "none"
    buttons,     \* the buttons the last run rendered
    input_data,  \* the DataFrame built by results_page in this run
    passed,      \* the DataFrame handed to model.predict in this run
    prediction,  \* what model.predict returned in this run
    predicts,    \* model.predict calls made in this run
    visits,      \* history: the steps gone to since the step was last Welcome
    active,      \* the session whose script thread takes the steps: 1 or 2
    parked       \* the other session: its st.session_state and script thread

vars ==
    <<pc, model, loads, edits, hasPage, page, inputs, event, fresh,
      runs, renders, mutations, rendered, error, label, buttons, input_data, passed,
      prediction, predicts, visits, active, parked>>

\* what belongs to the session that is not taking steps
others == <<active, parked>>

session == <<hasPage, page, inputs>>

perInteraction == <<event, edits>>

runView == <<rendered, error, label, buttons, input_data, passed, prediction, predicts>>

\* no step gone to since Welcome, and Analyze not pressed
NoVisits == [basic |-> FALSE, kidney |-> FALSE, analyzed |-> NoInputs]

OpenEvent == [kind |-> "open", field |-> "none", value |-> 0, button |-> "none"]

\* a session whose browser has just opened the app, before its first run
FreshSession ==
    [pc |-> "load", model |-> NoModel, loads |-> 0, edits |-> 0, hasPage |-> FALSE,
     page |-> 0, inputs |-> NoInputs, event |-> OpenEvent, fresh |-> TRUE, runs |-> 0,
     renders |-> 0, mutations |-> 0, rendered |-> 0, error |-> "none", label |-> "none",
     buttons |-> {}, input_data |-> NoTable, passed |-> NoTable,
     prediction |-> NoPrediction, predicts |-> 0, visits |-> NoVisits]

\* the browser opens the app: the first script run of a fresh session starts
Init ==
    /\ pc = "load"
    /\ model = NoModel
    /\ loads = 0
    /\ edits = 0
    /\ hasPage = FALSE
    /\ page = 0
    /\ inputs = NoInputs
    /\ event = OpenEvent
    /\ fresh = TRUE
    /\ runs = 0
    /\ renders = 0
    /\ mutations = 0
    /\ rendered = 0
    /\ error = "none"
    /\ label = "none"
    /\ buttons = {}
    /\ input_data = NoTable
    /\ passed = NoTable
    /\ prediction = NoPrediction
    /\ predicts = 0
    /\ visits = NoVisits
    /\ active = 1
    /\ parked = FreshSession

\* ------------------------------------------------------- user interactions
\* the user changes the slider or number input of field f to raw
UserEdit(f, raw) ==
    /\ pc = "idle"
    /\ loads < MaxLoads
    /\ edits < MaxEdits
    /\ f \in PageControls(rendered)
    /\ edits' = edits + 1
    /\ event' = [kind |-> "edit", field |-> f, value |-> raw, button |-> "none"]
    /\ fresh' = TRUE
    /\ runs' = 0
    /\ renders' = 0
    /\ mutations' = 0
    /\ pc' = "load"
    /\ UNCHANGED <<model, loads, session, runView, visits>>
    /\ UNCHANGED others

\* the user presses a button that is on screen
UserPress(b) ==
    /\ pc = "idle"
    /\ loads < MaxLoads
    /\ b \in buttons
    /\ edits' = edits
    /\ event' = [kind |-> "press", field |-> "none", value |-> 0, button |-> b]
    /\ fresh' = TRUE
    /\ runs' = 0
    /\ renders' = 0
    /\ mutations' = 0
    /\ pc' = "load"
    /\ UNCHANGED <<model, loads, session, runView, visits>>
    /\ UNCHANGED others

\* --------------------------------------------------------- the script run
\* a run starts with an empty page
StartRun ==
    /\ runs' = runs + 1
    /\ rendered' = 0
    /\ label' = "none"
    /\ buttons' = {}
    /\ input_data' = NoTable
    /\ passed' = NoTable
    /\ prediction' = NoPrediction
    /\ predicts' = 0

\* model = joblib.load('best_gb_model_tuned.pkl') returns what the file holds
LoadModelOk ==
    /\ pc = "load"
    /\ StartRun
    /\ loads' = loads + 1
    /\ model' \in Artifacts
    /\ error' = "none"
    /\ pc' = "init"
    /\ UNCHANGED <<session, perInteraction, fresh, renders, mutations, visits>>
    /\ UNCHANGED others

LoadModelFailsNoStop ==
    /\ pc = "load"
    /\ StartRun
    /\ loads' = loads + 1
    /\ model' = NoModel
    /\ error' = "load"
    /\ pc' = "init"
    /\ UNCHANGED <<session, perInteraction, fresh, renders, mutations, visits>>
    /\ UNCHANGED others

\* joblib.load raises: st.error(...) and st.stop()
LoadModelFails ==
    /\ pc = "load"
    /\ StartRun
    /\ loads' = loads + 1
    /\ model' = NoModel
    /\ error' = "load"
    /\ pc' = "stopped"
    /\ UNCHANGED <<session, perInteraction, fresh, renders, mutations, visits>>
    /\ UNCHANGED others

InitSessionStateAlways ==
    /\ pc = "init"
    /\ hasPage' = TRUE
    /\ page' = 1
    /\ inputs' = DefaultInputs
    /\ pc' = "router"
    /\ UNCHANGED <<model, loads, perInteraction, fresh, runs, renders,
                   mutations, runView, visits>>
    /\ UNCHANGED others

\* if 'page' not in st.session_state: page = 1 and inputs = the defaults
InitSessionState ==
    /\ pc = "init"
    /\ hasPage' = TRUE
    /\ page' = IF hasPage THEN page ELSE 1
    /\ inputs' = IF hasPage THEN inputs ELSE DefaultInputs
    /\ pc' = "router"
    /\ UNCHANGED <<model, loads, perInteraction, fresh, runs, renders,
                   mutations, runView, visits>>
    /\ UNCHANGED others

\* st.button(key=b) is True in the run that serves the press of b
Button(b) == fresh /\ event.kind = "press" /\ event.button = b

ControlFromDefault(f, current) ==
    IF fresh /\ event.kind = "edit" /\ event.field = f
    THEN Clamp(event.value, MinValue[f], MaxValue[f])
    ELSE DefaultInputs[f]

\* the value a slider or number input of field f returns: the user's entry
\* kept inside the range, or the value the code hands it as its current one
Control(f, current) ==
    IF fresh /\ event.kind = "edit" /\ event.field = f
    THEN Clamp(event.value, MinValue[f], MaxValue[f])
    ELSE current

\* the position in PageButtons(p) of the button that is True, 0 for none
Pressed(p) ==
    IF \E i \in 1..Len(PageButtons(p)) : Button(PageButtons(p)[i])
    THEN CHOOSE i \in 1..Len(PageButtons(p)) : Button(PageButtons(p)[i])
    ELSE 0

\* the buttons a page function reaches: all, or those up to the pressed one
ReachedButtons(p) ==
    {PageButtons(p)[i] : i \in 1..(IF Pressed(p) = 0 THEN Len(PageButtons(p)) ELSE Pressed(p))}

\* the pieces of session state whose value a step changes
Changes(newPage, newInputs) ==
    Cardinality({f \in Fields : newInputs[f] # inputs[f]})
        + (IF newPage # page THEN 1 ELSE 0)

go_to_page_no_rerun(page_num) ==
    /\ page' = page_num
    /\ fresh' = FALSE
    /\ model' = NoModel
    /\ pc' = "idle"
    /\ renders' = renders + 1

\* st.session_state.page = page_num; st.rerun(): this run ends here, its
\* globals go, and the script starts again
go_to_page(page_num) ==
    /\ page' = page_num
    /\ fresh' = FALSE
    /\ model' = NoModel
    /\ pc' = "load"
    /\ renders' = renders

\* the script reaches its last line and its globals go
EndOfScript ==
    /\ page' = page
    /\ fresh' = FALSE
    /\ model' = NoModel
    /\ pc' = "idle"
    /\ renders' = renders + 1

\* history: what visits becomes when button b calls go_to_page(target) with
\* rec the record stored at that moment
Visit(b, target, rec) ==
    [basic |-> IF target = 1 THEN FALSE ELSE IF target = 2 THEN TRUE ELSE visits.basic,
     kidney |-> IF target = 1 THEN FALSE ELSE IF target = 3 THEN visits.basic
                ELSE visits.kidney,
     analyzed |-> IF target = 4 /\ b = "analyze" THEN rec ELSE NoInputs]

\* the buttons of page p, tested in order
Navigation(p) ==
    /\ buttons' = ReachedButtons(p)
    /\ IF Pressed(p) # 0
       THEN /\ go_to_page(ButtonTarget(PageButtons(p)[Pressed(p)]))
            /\ visits' = Visit(PageButtons(p)[Pressed(p)],
                               ButtonTarget(PageButtons(p)[Pressed(p)]), inputs')
       ELSE /\ EndOfScript
            /\ visits' = visits

welcome_page ==
    /\ pc = "router"
    /\ page = 1
    /\ rendered' = 1
    /\ inputs' = inputs
    /\ Navigation(1)
    /\ mutations' = mutations + Changes(page', inputs')
    /\ UNCHANGED <<loads, hasPage, perInteraction, runs, error, label,
                   input_data, passed, prediction, predicts>>
    /\ UNCHANGED others

\* the assignments inputs[f] = control(...) of a page's controls
WriteControls(p) ==
    [f \in Fields |-> IF f \in PageControls(p) THEN Control(f, inputs[f]) ELSE inputs[f]]

basic_metrics_page ==
    /\ pc = "router"
    /\ page = 2
    /\ rendered' = 2
    /\ inputs' = WriteControls(2)
    /\ Navigation(2)
    /\ mutations' = mutations + Changes(page', inputs')
    /\ UNCHANGED <<loads, hasPage, perInteraction, runs, error, label,
                   input_data, passed, prediction, predicts>>
    /\ UNCHANGED others

kidney_metrics_page ==
    /\ pc = "router"
    /\ page = 3
    /\ rendered' = 3
    /\ inputs' = WriteControls(3)
    /\ Navigation(3)
    /\ mutations' = mutations + Changes(page', inputs')
    /\ UNCHANGED <<loads, hasPage, perInteraction, runs, error, label,
                   input_data, passed, prediction, predicts>>
    /\ UNCHANGED others

\* the try block of results_page, with out what model.predict would answer
TryPredict(out) ==
    /\ input_data' = InputTable(inputs)
    /\ IF model.hasNames /\ ReorderRaises(InputTable(inputs), model.names)
       THEN /\ passed' = NoTable
            /\ prediction' = NoPrediction
            /\ predicts' = predicts
            /\ error' = "prediction"
            /\ label' = "none"
       ELSE /\ passed' = IF model.hasNames
                         THEN Reorder(InputTable(inputs), model.names)
                         ELSE InputTable(inputs)
            /\ prediction' = out
            /\ predicts' = predicts + 1
            /\ error' = IF out.raised THEN "prediction" ELSE "none"
            /\ label' = IF out.raised THEN "none" ELSE Label(out)

results_page_uncaught ==
    /\ pc = "router"
    /\ page = 4
    /\ rendered' = 4
    /\ \E out \in PredictOutcomes : TryPredict(out)
    /\ IF error' = "prediction"
       THEN buttons' = {} /\ EndOfScript /\ visits' = visits
       ELSE Navigation(4)
    /\ inputs' = inputs
    /\ mutations' = mutations + Changes(page', inputs')
    /\ UNCHANGED <<loads, hasPage, perInteraction, runs>>
    /\ UNCHANGED others

\* results_page: the try block, then the Return to Home button
results_page ==
    /\ pc = "router"
    /\ page = 4
    /\ rendered' = 4
    /\ \E out \in PredictOutcomes : TryPredict(out)
    /\ inputs' = inputs
    /\ Navigation(4)
    /\ mutations' = mutations + Changes(page', inputs')
    /\ UNCHANGED <<loads, hasPage, perInteraction, runs>>
    /\ UNCHANGED others

Next ==
    \/ \E f \in Fields : \E raw \in RawEntries(f) : UserEdit(f, raw)
    \/ \E b \in ButtonKeys : UserPress(b)
    \/ LoadModelOk
    \/ LoadModelFails
    \/ InitSessionState
    \/ welcome_page
    \/ basic_metrics_page
    \/ kidney_metrics_page
    \/ results_page

Spec == Init /\ [][Next]_vars

\* ------------------------------------------------------------ two sessions
\* script runs of both sessions together after which no interaction starts
MaxSessionLoads == 9

\* the controls the users of two concurrent sessions change
SessionFields == {"age", "egfr"}

\* the session taking steps, as the hosting framework keeps it
OwnState ==
    [pc |-> pc, model |-> model, loads |-> loads, edits |-> edits, hasPage |-> hasPage,
     page |-> page, inputs |-> inputs, event |-> event, fresh |-> fresh, runs |-> runs,
     renders |-> renders, mutations |-> mutations, rendered |-> rendered,
     error |-> error, label |-> label, buttons |-> buttons, input_data |-> input_data,
     passed |-> passed, prediction |-> prediction, predicts |-> predicts,
     visits |-> visits]

ResumeSharedRecord(s) ==
    /\ pc' = s.pc
    /\ model' = s.model
    /\ loads' = s.loads
    /\ edits' = s.edits
    /\ hasPage' = s.hasPage
    /\ page' = s.page
    /\ inputs' = IF s.hasPage /\ hasPage THEN inputs ELSE s.inputs
    /\ event' = s.event
    /\ fresh' = s.fresh
    /\ runs' = s.runs
    /\ renders' = s.renders
    /\ mutations' = s.mutations
    /\ rendered' = s.rendered
    /\ error' = s.error
    /\ label' = s.label
    /\ buttons' = s.buttons
    /\ input_data' = s.input_data
    /\ passed' = s.passed
    /\ prediction' = s.prediction
    /\ predicts' = s.predicts
    /\ visits' = s.visits

\* session s takes the next steps: st.session_state is that session's own
\* page and inputs, and its script thread continues where it was
Resume(s) ==
    /\ pc' = s.pc
    /\ model' = s.model
    /\ loads' = s.loads
    /\ edits' = s.edits
    /\ hasPage' = s.hasPage
    /\ page' = s.page
    /\ inputs' = s.inputs
    /\ event' = s.event
    /\ fresh' = s.fresh
    /\ runs' = s.runs
    /\ renders' = s.renders
    /\ mutations' = s.mutations
    /\ rendered' = s.rendered
    /\ error' = s.error
    /\ label' = s.label
    /\ buttons' = s.buttons
    /\ input_data' = s.input_data
    /\ passed' = s.passed
    /\ prediction' = s.prediction
    /\ predicts' = s.predicts
    /\ visits' = s.visits

\* the hosting framework lets the other session take the next steps
SwitchSession ==
    /\ parked' = OwnState
    /\ active' = 3 - active
    /\ Resume(parked)

\* both sessions have script runs left
SessionBudget == loads + parked.loads < MaxSessionLoads

NextSessions ==
    \/ \E f \in SessionFields : \E raw \in RawEntries(f) : SessionBudget /\ UserEdit(f, raw)
    \/ \E b \in ButtonKeys : SessionBudget /\ UserPress(b)
    \/ LoadModelOk
    \/ LoadModelFails
    \/ InitSessionState
    \/ welcome_page
    \/ basic_metrics_page
    \/ kidney_metrics_page
    \/ results_page
    \/ SwitchSession

SpecSessions == Init /\ [][NextSessions]_vars

\* ================================================================== claims
\* the ranges the data model declares, floats in hundredths
DeclaredMin ==
    [age |-> 5, glucose |-> 50, serum_creatinine |-> 50, potassium |-> 200,
     wbc |-> 1000, urine_output |-> 300, blood_urea |-> 500, upcr |-> 1,
     egfr |-> 1, pth |-> 1000, il6 |-> 1]

DeclaredMax ==
    [age |-> 100, glucose |-> 600, serum_creatinine |-> 2000, potassium |-> 800,
     wbc |-> 20000, urine_output |-> 4000, blood_urea |-> 25000, upcr |-> 1000,
     egfr |-> 20000, pth |-> 10000, il6 |-> 2000]

DeclaredFields ==
    {"age", "glucose", "serum_creatinine", "potassium", "wbc", "urine_output",
     "blood_urea", "upcr", "egfr", "pth", "il6"}

NearestBound(f, v) ==
    IF v < DeclaredMin[f] THEN DeclaredMin[f]
    ELSE IF v > DeclaredMax[f] THEN DeclaredMax[f] ELSE v

\* an interaction has been served to the end: the script is waiting again
Served(kind) == pc = "idle" /\ event.kind = kind

\* C1: from the creation of the record on, each of the eleven fields is
\* defined and inside its declared range, and an entry outside the range is
\* stored as the nearest bound of the range.
C1_FieldsInRange ==
    /\ DOMAIN inputs = DeclaredFields
    /\ hasPage =>
        \A f \in DeclaredFields :
            /\ inputs[f] # Undefined
            /\ DeclaredMin[f] <= inputs[f]
            /\ inputs[f] <= DeclaredMax[f]
    /\ Served("edit") => inputs[event.field] = NearestBound(event.field, event.value)

\* an entry above the range has been served and the upper bound is stored
C1_Witness ==
    /\ Served("edit")
    /\ event.value > DeclaredMax[event.field]
    /\ inputs[event.field] = DeclaredMax[event.field]
    /\ inputs[event.field] # DefaultInputs[event.field]

\* the declared transitions between steps
DeclaredTransitions == {<<1, 2>>, <<2, 3>>, <<3, 4>>, <<3, 2>>, <<2, 1>>, <<3, 1>>, <<4, 1>>}

\* C2: the current step is always one of the four steps, and every change
\* of step is a declared transition: no step is skipped forward and Results
\* is left only for Welcome.
C2_DeclaredTransitionsOnly ==
    /\ [](hasPage => page \in 1..4)
    /\ [][hasPage /\ page' # page => <<page, page'>> \in DeclaredTransitions]_vars

\* Results has been reached and Analyze was the way in
C2_Witness ==
    /\ Served("press")
    /\ event.button = "analyze"
    /\ page = 4
    /\ rendered = 4

\* C3: a navigation changes the current step and nothing else: no step that
\* serves a button press, and no step that changes the page, changes a field,
\* so Return to Home leaves the record as it was and does not reset it.
C3_NavigationKeepsRecord ==
    [][hasPage /\ (event.kind = "press" \/ event'.kind = "press" \/ page' # page)
        => inputs' = inputs]_vars

\* back on Welcome by Return to Home, with a record that is not the defaults
C3_Witness ==
    /\ Served("press")
    /\ event.button \in {"home_from_basic", "home_from_kidney", "home_from_results"}
    /\ page = 1
    /\ rendered = 1
    /\ inputs # DefaultInputs

NoDisease == [raised |-> FALSE, type |-> "str", repr |-> "No_Disease"]

\* C4: on Results the label is Negative exactly when the model's output is
\* the string "No_Disease"; every other output, of any type, gives Positive.
C4_LabelFromOutput ==
    /\ label # "none" => rendered = 4 /\ predicts = 1 /\ ~prediction.raised
    /\ (rendered = 4 /\ predicts = 1 /\ ~prediction.raised) =>
        /\ label \in {"Negative", "Positive"}
        /\ label = "Negative" <=> prediction = NoDisease

\* an output that reads No_Disease and is no string is shown as Positive
C4_Witness ==
    /\ rendered = 4
    /\ prediction.type = "bytes"
    /\ prediction.repr = "No_Disease"
    /\ label = "Positive"

\* C5: a failed load is reported and the run stops there: the session state
\* is not initialised or touched by that run, no step is rendered, no
\* prediction is invoked, and nothing runs after the stop.
C5_LoadFailureStops ==
    /\ [](error = "load" =>
            /\ pc = "stopped"
            /\ rendered = 0
            /\ buttons = {}
            /\ predicts = 0
            /\ label = "none"
            /\ (loads = 1 => ~hasPage))
    /\ [][error' = "load" => UNCHANGED session]_vars
    /\ [][pc = "stopped" => pc' = "stopped"]_vars

\* the load has failed in the first run of the session
C5_Witness ==
    /\ pc = "stopped"
    /\ error = "load"
    /\ loads = 1
    /\ ~hasPage

\* C6: when building the table, reordering it or the model's predict raises
\* while Results renders, the error is shown and no label is; the step stays
\* Results unless Return to Home was the press being served, the record is
\* unchanged, and Return to Home is on screen and leads to Welcome.
C6_PredictionErrorIsCaught ==
    /\ [](error = "prediction" =>
            /\ rendered = 4
            /\ label = "none"
            /\ "home_from_results" \in buttons
            /\ pc \in {"idle", "load"}
            /\ (pc = "idle" => page = 4))
    /\ [][error' = "prediction" /\ pc = "router" =>
            /\ inputs' = inputs
            /\ page' = IF fresh /\ event.button = "home_from_results" THEN 1 ELSE 4]_vars
    /\ [][pc = "router" /\ page = 4 /\ fresh /\ event.button = "home_from_results" =>
            page' = 1 /\ pc' = "load"]_vars

\* the prediction raised in the run that served Return to Home, and the step
\* is Welcome
C6_Witness ==
    /\ error = "prediction"
    /\ rendered = 4
    /\ event.button = "home_from_results"
    /\ page = 1
    /\ pc = "load"

\* the column each field is declared to fill
DeclaredColumn ==
    [age |-> "Age of the patient",
     glucose |-> "Random blood glucose level (mg/dl)",
     blood_urea |-> "Blood urea (mg/dl)",
     serum_creatinine |-> "Serum creatinine (mg/dl)",
     potassium |-> "Potassium level (mEq/L)",
     wbc |-> "White blood cell count (cells/cumm)",
     egfr |-> "Estimated Glomerular Filtration Rate (eGFR)",
     upcr |-> "Urine protein-to-creatinine ratio",
     urine_output |-> "Urine output (ml/day)",
     pth |-> "Parathyroid hormone (PTH) level",
     il6 |-> "Interleukin-6 (IL-6) level"]

\* t has one row and eleven distinctly named columns, one per field, each
\* holding that field's value of the record
WellMapped(t) ==
    /\ Len(t) = 11
    /\ \A i, j \in 1..Len(t) : t[i].name = t[j].name => i = j
    /\ \A i \in 1..Len(t) : Len(t[i].values) = 1
    /\ \A f \in DeclaredFields :
        \E i \in 1..Len(t) : t[i].name = DeclaredColumn[f] /\ t[i].values = <<inputs[f]>>

\* C7: for every record, the table built for the model, and the table handed
\* to it, has one row and eleven distinctly named columns, each carrying the
\* value of the one field the fixed mapping gives it.
C7_TableIsColumnMapped ==
    /\ input_data # NoTable => WellMapped(input_data)
    /\ passed # NoTable => WellMapped(passed)
    /\ predicts = 1 => passed # NoTable
    /\ rendered = 4 => input_data # NoTable

\* a record that is not the defaults was handed to the model in other than
\* construction order
C7_Witness ==
    /\ predicts = 1
    /\ passed # NoTable
    /\ passed # input_data
    /\ inputs # DefaultInputs
    /\ inputs["egfr"] # DefaultInputs["egfr"]

DeclaredBasic == {"age", "glucose", "serum_creatinine", "potassium", "wbc"}

DeclaredKidney == {"urine_output", "blood_urea", "upcr", "egfr", "pth", "il6"}

\* C8: a field changes only in the run that serves a change of its own
\* control: the five basic fields while the step is BasicMetrics, the six
\* kidney fields while it is KidneyMetrics, none on Welcome or Results.
C8_FieldWrittenByOwnControl ==
    [][hasPage =>
        \A f \in DeclaredFields :
            inputs'[f] # inputs[f] =>
                /\ event.kind = "edit"
                /\ event.field = f
                /\ \/ f \in DeclaredBasic /\ page = 2
                   \/ f \in DeclaredKidney /\ page = 3]_vars

\* a basic field and a kidney field have both been changed
C8_Witness ==
    /\ Served("edit")
    /\ page = 3
    /\ event.field \in DeclaredKidney
    /\ inputs[event.field] # DefaultInputs[event.field]
    /\ \E f \in DeclaredBasic : inputs[f] # DefaultInputs[f]

\* C9: the model artifact is loaded once and never again: no interaction
\* or re-render makes another joblib.load call.
C9_LoadedOnce == loads <= 1

NamesOf(t) == [i \in 1..Len(t) |-> t[i].name]

\* every column of t is a column of u, name and values alike
ColumnsFrom(t, u) == \A i \in 1..Len(t) : \E j \in 1..Len(u) : t[i] = u[j]

\* C12: when the model has a feature list, the table handed to predict has
\* its columns in the order of that list, each with the values it had under
\* its name when built (all eleven when the list names the same eleven);
\* without a feature list the table is handed over as built; when the list
\* names a column the table lacks, predict is not called and the prediction
\* error is shown.
C12_FeatureOrder ==
    [][pc = "router" /\ page = 4 =>
        /\ ~model.hasNames =>
            predicts' = 1 /\ passed' = input_data'
        /\ (model.hasNames /\ \A i \in 1..Len(model.names) :
                                 model.names[i] \in {DeclaredColumn[f] : f \in DeclaredFields}) =>
            /\ predicts' = 1
            /\ NamesOf(passed') = model.names
            /\ ColumnsFrom(passed', input_data')
            /\ Len(model.names) = 11 => ColumnsFrom(input_data', passed')
        /\ (model.hasNames /\ \E i \in 1..Len(model.names) :
                                 model.names[i] \notin {DeclaredColumn[f] : f \in DeclaredFields}) =>
            /\ predicts' = 0
            /\ passed' = NoTable
            /\ error' = "prediction"
            /\ label' = "none"]_vars

\* a table built with the age column first has reached predict with the
\* IL-6 column first
C12_Witness ==
    /\ predicts = 1
    /\ Len(passed) = 11
    /\ input_data[1].name = "Age of the patient"
    /\ passed[1].name = "Interleukin-6 (IL-6) level"
    /\ passed[1].values = <<inputs["il6"]>>

\* the defaults the record is declared to start with, floats in hundredths
DeclaredDefaults ==
    [age |-> 40, glucose |-> 100, serum_creatinine |-> 100, potassium |-> 400,
     wbc |-> 7000, urine_output |-> 1500, blood_urea |-> 4000, upcr |-> 50,
     egfr |-> 9000, pth |-> 4000, il6 |-> 500]

\* C13: the session state is initialised once, in the first run, to step
\* Welcome and the declared defaults; no later run initialises the step or a
\* field again, and the step changes afterwards only in the run that serves
\* the press of a navigation button.
C13_InitialisedOnce ==
    /\ [][~hasPage /\ hasPage' =>
            loads = 1 /\ pc = "init" /\ page' = 1 /\ inputs' = DeclaredDefaults]_vars
    /\ [][hasPage => hasPage']_vars
    /\ [][hasPage /\ pc = "init" => page' = page /\ inputs' = inputs]_vars
    /\ [][hasPage /\ page' # page =>
            pc = "router" /\ fresh /\ event.kind = "press" /\ event.button \in buttons']_vars

\* a later run has passed the initialisation with the step and an edited
\* record as they were
C13_Witness ==
    /\ pc = "router"
    /\ loads > 3
    /\ page = 3
    /\ inputs # DeclaredDefaults
    /\ event.kind = "edit"

\* C14: predict is called only while the step is Results; whenever the step
\* is Results, BasicMetrics and after it KidneyMetrics were gone to since the
\* step was last Welcome and Analyze was the press that led there; and the
\* table handed to predict carries the record as stored at that press.
C14_PredictOnlyAfterAnalyze ==
    /\ [][predicts' > predicts => hasPage /\ page = 4 /\ pc = "router"]_vars
    /\ [](hasPage /\ page = 4 =>
            visits.basic /\ visits.kidney /\ visits.analyzed = inputs)
    /\ [][predicts' > predicts =>
            \A f \in DeclaredFields :
                \E i \in 1..Len(passed') :
                    /\ passed'[i].name = DeclaredColumn[f]
                    /\ passed'[i].values = <<visits.analyzed[f]>>]_vars

\* predict has been called on Results with an edited record, the one stored
\* when Analyze was pressed
C14_Witness ==
    /\ Served("press")
    /\ event.button = "analyze"
    /\ page = 4
    /\ predicts = 1
    /\ visits.analyzed = inputs
    /\ visits.analyzed # DeclaredDefaults

\* t has a column for each field, under its declared name, with the value
\* the field has in rec
CarriesRecord(t, rec) ==
    \A f \in DeclaredFields :
        \E i \in 1..Len(t) : t[i].name = DeclaredColumn[f] /\ t[i].values = <<rec[f]>>

\* C11: with two sessions taking steps in any order, no step of one session
\* changes the record, the step or anything else of the other; a session
\* finds its record and step as it left them when it goes on; the table a
\* session hands to the model, which decides the label it sees, carries that
\* session's own record; and the model a run has loaded is not written by
\* any page function.
C11_SessionsIsolated ==
    /\ [][active' = active => parked' = parked]_vars
    /\ [][active' # active =>
            /\ parked'.hasPage = hasPage
            /\ parked'.page = page
            /\ parked'.inputs = inputs
            /\ hasPage' = parked.hasPage
            /\ page' = parked.page
            /\ inputs' = parked.inputs]_vars
    /\ [](/\ passed # NoTable => CarriesRecord(passed, inputs)
          /\ parked.passed # NoTable => CarriesRecord(parked.passed, parked.inputs))
    /\ [][active' = active /\ model' # model =>
            \/ pc = "load" /\ model' \in Artifacts
            \/ pc = "router" /\ model' = NoModel]_vars

\* one session is on Results with a record it has edited and a label from
\* it, while the other session has taken steps and holds the defaults
C11_Witness ==
    /\ pc = "idle"
    /\ page = 4
    /\ predicts = 1
    /\ label # "none"
    /\ inputs # DeclaredDefaults
    /\ CarriesRecord(passed, inputs)
    /\ parked.pc = "idle"
    /\ parked.hasPage
    /\ parked.inputs = DeclaredDefaults
    /\ ~CarriesRecord(passed, parked.inputs)

====
